---- MODULE Spec2Model ----
(***************************************************************************)
(* A model of github.com/haleyrc/http: the server wrapper                  *)
(* (server/server.go: New, the six options, Server.ListenAndServe) and the *)
(* client wrapper (client/client.go: New and its four options).            *)
(*                                                                         *)
(* Three specifications share the variables:                               *)
(*   ConfigSpec  the constructors server.New and client.New applied to     *)
(*               bounded option lists;                                     *)
(*   Spec        one call of Server.ListenAndServe on a constructed        *)
(*               Server: the calling goroutine, the serve goroutine it     *)
(*               starts, the wrapped http.Server (Shutdown, Close, the     *)
(*               serve loop), the signal channel, the caller's context and *)
(*               the deadline of the drain context;                        *)
(*   FairSpec    Spec with weak fairness on the steps of the two           *)
(*               goroutines (the Go scheduler runs a runnable goroutine),  *)
(*               on the passing of time and on the context's timer.        *)
(* Durations are in seconds.                                               *)
(***************************************************************************)
EXTENDS Integers, Sequences, FiniteSets, TLC

VARIABLES
    \* ---- construction (ConfigSpec)
    call,       \* the pending constructor call: [fn, addr, h, opts]
    srv,        \* the *Server that server.New returned (NoServer before)
    cli,        \* the *Client that client.New returned (NoClient before)
    \* ---- one run of Server.ListenAndServe (Spec)
    pc,         \* position of the goroutine that called ListenAndServe
    spc,        \* position of the serve goroutine (func literal, lines 144-148)
    wg,         \* sync.WaitGroup counter
    registered, \* signal.Notify has registered osSignals
    delivered,  \* termination signals delivered to the process after registration
    dropped,    \* of those, the ones signal's non-blocking send dropped
    sigGot,     \* the value received from osSignals ("none" before)
    parentErr,  \* Err() of the caller-supplied context ("nil" while it is live)
    ctxErr,     \* Err() of the context made by WithTimeout ("none" before it exists)
    engine,     \* the wrapped http.Server: [inShutdown, listening, conns]
    serveErr,   \* what s.server.ListenAndServe() returned ("none" before)
    shutErr,    \* err of line 158 ("none" before Shutdown returns)
    closeErr,   \* err of line 160 ("none" before Close returns)
    calls,      \* how often s.server.Shutdown and s.server.Close were called
    late,       \* signals delivered after one was received and before the return
    elapsed,    \* time that has passed since the signal was received
    deadline,   \* deadline of the context of line 155, on the scale of
                \* `elapsed` (-1 before the context exists)
    writes,     \* every Fprintf so far, in order: [w, by, site, text]
    ret         \* what ListenAndServe returned ("none" before)

cfgVars == <<call, srv, cli>>
runVars == <<pc, spc, wg, registered, delivered, dropped, sigGot, parentErr,
             ctxErr, engine, serveErr, shutErr, closeErr, calls, late, elapsed,
             deadline, writes, ret>>
vars == <<call, srv, cli, pc, spc, wg, registered, delivered, dropped, sigGot,
          parentErr, ctxErr, engine, serveErr, shutErr, closeErr, calls, late,
          elapsed, deadline, writes, ret>>

----------------------------------------------------------------------------
(* Bounds of the model. *)

\* longest option list passed to a constructor
MaxOpts == 3

\* most connections in flight at the wrapped server at once
MaxConns == 2

\* most termination signals delivered during one run
MaxSignals == 2

\* longest time between the receipt of the signal and the run call reaching
\* line 155
MaxLatency == 1

----------------------------------------------------------------------------
(* server/server.go, lines 22-39: the defaults. *)

ReadTimeout == 5

WriteTimeout == 10

ShutdownTimeout == 5

MaxHeaderBytes == 1048576

(* client/client.go, line 11. *)
DefaultTimeout == 5

\* os.Stdout and os.Stderr, and two writers a caller may supply
Stdout == "os.Stdout"

Stderr == "os.Stderr"

Writers == {"bufA", "bufB"}

\* durations and sizes a caller may pass to an option
Durations == {0, 10}

Sizes == {0, 4096}

\* addresses and handlers a caller may pass to New; the second address is an
\* IPv6 link-local address with a zone
Addrs == {":8080", "[fe80::1%eth0]:80"}

Handlers == {"nil", "mux"}

----------------------------------------------------------------------------
(* Text written by fmt.Fprintf.  A format is a sequence of tokens: "%" is a *)
(* token of its own and the token after it is the verb character.           *)

\* the characters of an address, as format tokens
AddrTokens(addr) ==
    IF addr = "[fe80::1%eth0]:80"
    THEN <<"[fe80::1", "%", "e", "th0]:80">>
    ELSE <<addr>>

RECURSIVE Concat(_)
\* the string a token sequence spells
Concat(toks) ==
    IF toks = <<>> THEN "" ELSE Head(toks) \o Concat(Tail(toks))

RECURSIVE Sprintf(_, _)
\* fmt's formatting of `format` with operands `args` (strings): %% is a
\* percent sign, %s and %v take the next operand, a verb with no operand left
\* prints %!verb(MISSING), a % at the end prints %!(NOVERB)
Sprintf(format, args) ==
    IF format = <<>> THEN ""
    ELSE IF Head(format) # "%" THEN Head(format) \o Sprintf(Tail(format), args)
    ELSE IF Len(format) = 1 THEN "%!(NOVERB)"
    ELSE LET verb == format[2]
             rest == Tail(Tail(format))
         IN  IF verb = "%" THEN "%" \o Sprintf(rest, args)
             ELSE IF args = <<>>
                  THEN "%!" \o verb \o "(MISSING)" \o Sprintf(rest, args)
                  ELSE Head(args) \o Sprintf(rest, Tail(args))

\* time.Duration.String() for a whole number of seconds below a minute
DurationString(d) == ToString(d) \o "s"

----------------------------------------------------------------------------
(* server/server.go: Server, New and the options. *)

NoServer == [none |-> TRUE]

\* WithReadTimeout, lines 79-84
WithReadTimeout(to, s) == [s EXCEPT !.server.ReadTimeout = to]

\* WithWriteTimeout, lines 88-93
WithWriteTimeout(to, s) == [s EXCEPT !.server.WriteTimeout = to]

\* WithShutdown, lines 97-102
WithShutdown(to, s) == [s EXCEPT !.shutdown = to]

\* WithMaxHeaderBytes, lines 106-111
WithMaxHeaderBytes(n, s) == [s EXCEPT !.server.MaxHeaderBytes = n]

\* WithOutputWriter, lines 117-122
WithOutputWriter(w, s) == [s EXCEPT !.out = w]

\* WithErrorWriter setting both sinks
WithErrorWriter_BothSinks(w, s) == [s EXCEPT !.out = w, !.err = w]

\* WithErrorWriter, lines 128-133
WithErrorWriter(w, s) == [s EXCEPT !.err = w]

\* an Option value is the closure an option constructor returned: the
\* constructor's name and the argument it captured
ServerOptions ==
    [name : {"WithReadTimeout", "WithWriteTimeout", "WithShutdown"}, arg : Durations]
    \cup [name : {"WithMaxHeaderBytes"}, arg : Sizes]
    \cup [name : {"WithOutputWriter", "WithErrorWriter"}, arg : Writers]

\* opt(s), line 67
ApplyOption(opt, s) ==
    CASE opt.name = "WithReadTimeout"    -> WithReadTimeout(opt.arg, s)
      [] opt.name = "WithWriteTimeout"   -> WithWriteTimeout(opt.arg, s)
      [] opt.name = "WithShutdown"       -> WithShutdown(opt.arg, s)
      [] opt.name = "WithMaxHeaderBytes" -> WithMaxHeaderBytes(opt.arg, s)
      [] opt.name = "WithOutputWriter"   -> WithOutputWriter(opt.arg, s)
      [] opt.name = "WithErrorWriter"    -> WithErrorWriter(opt.arg, s)

\* NewDefaults with the two timeouts exchanged
NewDefaults_TimeoutsSwapped(addr, h) ==
    [addr     |-> addr,
     server   |-> [Addr           |-> addr,
                   Handler        |-> h,
                   ReadTimeout    |-> WriteTimeout,
                   WriteTimeout   |-> ReadTimeout,
                   MaxHeaderBytes |-> MaxHeaderBytes],
     shutdown |-> ShutdownTimeout,
     out      |-> Stdout,
     err      |-> Stderr]

\* the struct literal of lines 52-64
NewDefaults(addr, h) ==
    [addr     |-> addr,
     server   |-> [Addr           |-> addr,
                   Handler        |-> h,
                   ReadTimeout    |-> ReadTimeout,
                   WriteTimeout   |-> WriteTimeout,
                   MaxHeaderBytes |-> MaxHeaderBytes],
     shutdown |-> ShutdownTimeout,
     out      |-> Stdout,
     err      |-> Stderr]

RECURSIVE ApplyOptions_Reversed(_, _)
\* ApplyOptions ranging over the options from the last to the first
ApplyOptions_Reversed(s, opts) ==
    IF opts = <<>> THEN s
    ELSE ApplyOption(Head(opts), ApplyOptions_Reversed(s, Tail(opts)))

RECURSIVE ApplyOptions(_, _)
\* the loop of lines 66-68: s = opt(s) for each opt, in order
ApplyOptions(s, opts) ==
    IF opts = <<>> THEN s
    ELSE ApplyOptions(ApplyOption(Head(opts), s), Tail(opts))

\* New, lines 51-71
New(addr, h, opts) == ApplyOptions(NewDefaults(addr, h), opts)

----------------------------------------------------------------------------
(* client/client.go: Client, New and the options. *)

NoClient == [none |-> TRUE]

Transports == {"nil", "rt"}

RedirectPolicies == {"nil", "veto"}

Jars == {"nil", "jar"}

\* WithTimeout keeping the current timeout when given a zero one
WithTimeout_RejectsZero(to, c) ==
    IF to > 0 THEN [c EXCEPT !.Timeout = to] ELSE c

\* WithTimeout, lines 25-30
WithTimeout(to, c) == [c EXCEPT !.Timeout = to]

\* WithTransport, lines 34-39
WithTransport(t, c) == [c EXCEPT !.Transport = t]

\* WithCheckRedirect, lines 43-48
WithCheckRedirect(f, c) == [c EXCEPT !.CheckRedirect = f]

\* WithJar, lines 52-57
WithJar(j, c) == [c EXCEPT !.Jar = j]

ClientOptions ==
    [name : {"WithTimeout"}, arg : Durations]
    \cup [name : {"WithTransport"}, arg : Transports]
    \cup [name : {"WithCheckRedirect"}, arg : RedirectPolicies]
    \cup [name : {"WithJar"}, arg : Jars]

\* opt(c), line 69
ApplyClientOption(opt, c) ==
    CASE opt.name = "WithTimeout"       -> WithTimeout(opt.arg, c)
      [] opt.name = "WithTransport"     -> WithTransport(opt.arg, c)
      [] opt.name = "WithCheckRedirect" -> WithCheckRedirect(opt.arg, c)
      [] opt.name = "WithJar"           -> WithJar(opt.arg, c)

\* the struct literal of lines 62-66: the other fields of http.Client are
\* Go's zero values
ClientDefaults ==
    [Timeout       |-> DefaultTimeout,
     Transport     |-> "nil",
     CheckRedirect |-> "nil",
     Jar           |-> "nil"]

RECURSIVE ApplyClientOptions(_, _)
\* the loop of lines 68-70
ApplyClientOptions(c, opts) ==
    IF opts = <<>> THEN c
    ELSE ApplyClientOptions(ApplyClientOption(Head(opts), c), Tail(opts))

\* client.New, lines 61-73
ClientNew(opts) == ApplyClientOptions(ClientDefaults, opts)

----------------------------------------------------------------------------
(* ConfigSpec: the constructors applied to bounded option lists. *)

\* the sequences over S of length at most n
SeqsUpTo(S, n) == UNION {[1..k -> S] : k \in 0..n}

\* the run of ListenAndServe has not begun
RunIdle ==
    /\ pc = "idle"
    /\ spc = "idle"
    /\ wg = 0
    /\ registered = FALSE
    /\ delivered = 0
    /\ dropped = 0
    /\ sigGot = "none"
    /\ parentErr = "nil"
    /\ ctxErr = "none"
    /\ engine = [inShutdown |-> FALSE, listening |-> FALSE, conns |-> 0]
    /\ serveErr = "none"
    /\ shutErr = "none"
    /\ closeErr = "none"
    /\ calls = [Shutdown |-> 0, Close |-> 0]
    /\ late = 0
    /\ elapsed = 0
    /\ deadline = -1
    /\ writes = <<>>
    /\ ret = "none"

\* a caller is about to call server.New or client.New
ConfigInit ==
    /\ \/ \E a \in Addrs, h \in Handlers, os \in SeqsUpTo(ServerOptions, MaxOpts) :
            call = [fn |-> "server.New", addr |-> a, h |-> h, opts |-> os]
       \/ \E os \in SeqsUpTo(ClientOptions, MaxOpts) :
            call = [fn |-> "client.New", addr |-> "", h |-> "nil", opts |-> os]
    /\ srv = NoServer
    /\ cli = NoClient
    /\ RunIdle

\* s := server.New(addr, h, opts...)
CallServerNew ==
    /\ call.fn = "server.New"
    /\ srv = NoServer
    /\ srv' = New(call.addr, call.h, call.opts)
    /\ UNCHANGED <<call, cli>>
    /\ UNCHANGED runVars

\* c := client.New(opts...)
CallClientNew ==
    /\ call.fn = "client.New"
    /\ cli = NoClient
    /\ cli' = ClientNew(call.opts)
    /\ UNCHANGED <<call, srv>>
    /\ UNCHANGED runVars

ConfigNext == CallServerNew \/ CallClientNew

ConfigSpec == ConfigInit /\ [][ConfigNext]_vars

----------------------------------------------------------------------------
(* Errors of the collaborators, by name, and the text of their Error().    *)

\* http.ErrServerClosed, the *net.OpError of a failed bind, the context
\* package's two errors, and the error of closing a listener
ErrorTokens(e, addr) ==
    CASE e = "ErrServerClosed"  -> <<"http: Server closed">>
      [] e = "ErrBind"          -> <<"listen tcp ">> \o AddrTokens(addr)
                                   \o <<": bind: address already in use">>
      [] e = "DeadlineExceeded" -> <<"context deadline exceeded">>
      [] e = "Canceled"         -> <<"context canceled">>
      [] e = "ErrListenerClose" -> <<"close tcp ">> \o AddrTokens(addr)
                                   \o <<": use of closed network connection">>

\* err.Error()
ErrorText(e, addr) == Concat(ErrorTokens(e, addr))

\* one call of fmt.Fprintf(w, ...) made at source line `site` by goroutine `by`
Fprintf(w, by, site, text) == [w |-> w, by |-> by, site |-> site, text |-> text]

\* the text of line 146: "listening on %s...\n" with s.addr
ListeningText(s) ==
    Sprintf(<<"listening on ", "%", "s", "...\n">>, <<s.addr>>)

\* the text of line 147: the error's text is the format, with no operands
ServeErrorText(s, e) == Sprintf(ErrorTokens(e, s.addr), <<>>)

\* the text of line 159: "shutdown timed out after %s: %v"
TimedOutText(s, e) ==
    Sprintf(<<"shutdown timed out after ", "%", "s", ": ", "%", "v">>,
            <<DurationString(s.shutdown), ErrorText(e, s.addr)>>)

\* the text of line 161: "error killing server: %v"
KillText(s, e) ==
    Sprintf(<<"error killing server: ", "%", "v">>, <<ErrorText(e, s.addr)>>)

----------------------------------------------------------------------------
(* Spec: one call of Server.ListenAndServe. *)

\* the option lists of the Servers that are run: the defaults, a zero grace
\* period, and one writer for both sinks
RunOptions ==
    {<<>>,
     <<[name |-> "WithShutdown", arg |-> 0]>>,
     <<[name |-> "WithOutputWriter", arg |-> "bufA"],
       [name |-> "WithErrorWriter", arg |-> "bufA"]>>}

\* a constructed Server, and a caller's context that is live or already
\* cancelled, just before ListenAndServe(ctx) is called
Init ==
    /\ \E a \in Addrs, os \in RunOptions :
         /\ call = [fn |-> "server.New", addr |-> a, h |-> "mux", opts |-> os]
         /\ srv = New(a, "mux", os)
    /\ cli = NoClient
    /\ pc = "start"
    /\ spc = "idle"
    /\ wg = 0
    /\ registered = FALSE
    /\ delivered = 0
    /\ dropped = 0
    /\ sigGot = "none"
    /\ parentErr \in {"nil", "Canceled"}
    /\ ctxErr = "none"
    /\ engine = [inShutdown |-> FALSE, listening |-> FALSE, conns |-> 0]
    /\ serveErr = "none"
    /\ shutErr = "none"
    /\ closeErr = "none"
    /\ calls = [Shutdown |-> 0, Close |-> 0]
    /\ late = 0
    /\ elapsed = 0
    /\ deadline = -1
    /\ writes = <<>>
    /\ ret = "none"

\* ---- the goroutine that called ListenAndServe

\* lines 141-148: wg.Add(1) and the go statement
Start ==
    /\ pc = "start"
    /\ wg' = wg + 1
    /\ spc' = "print"
    /\ pc' = "notify"
    /\ UNCHANGED <<registered, delivered, dropped, sigGot, parentErr, ctxErr,
                   engine, serveErr, shutErr, closeErr, writes, ret>>
    /\ UNCHANGED <<calls, cfgVars>>
    /\ UNCHANGED <<late, elapsed, deadline>>

\* lines 150-151: make(chan os.Signal) and signal.Notify
Notify ==
    /\ pc = "notify"
    /\ registered' = TRUE
    /\ pc' = "recv"
    /\ UNCHANGED <<spc, wg, delivered, dropped, sigGot, parentErr, ctxErr,
                   engine, serveErr, shutErr, closeErr, writes, ret>>
    /\ UNCHANGED <<calls, cfgVars>>
    /\ UNCHANGED <<late, elapsed, deadline>>

\* Park as a select that also takes ctx.Done(): with the caller's context
\* done the wait ends without a signal
Park_OrCtxDone ==
    /\ pc = "recv"
    /\ pc' = IF parentErr # "nil" THEN "timeout" ELSE "parked"
    /\ UNCHANGED <<spc, wg, registered, delivered, dropped, sigGot, parentErr,
                   ctxErr, engine, serveErr, shutErr, closeErr, writes, ret>>
    /\ UNCHANGED <<calls, cfgVars>>
    /\ UNCHANGED <<late, elapsed, deadline>>

\* Park as a select that also takes the end of the serve goroutine: once
\* s.server.ListenAndServe() has returned the run call goes on to the join
Park_OrServeEnded ==
    /\ pc = "recv"
    /\ pc' = IF serveErr # "none" THEN "wait" ELSE "parked"
    /\ UNCHANGED <<spc, wg, registered, delivered, dropped, sigGot, parentErr,
                   ctxErr, engine, serveErr, shutErr, closeErr, writes, ret>>
    /\ UNCHANGED <<calls, cfgVars>>
    /\ UNCHANGED <<late, elapsed, deadline>>

\* line 153: the goroutine reaches <-osSignals and parks as the channel's
\* waiting receiver
Park ==
    /\ pc = "recv"
    /\ pc' = "parked"
    /\ UNCHANGED <<spc, wg, registered, delivered, dropped, sigGot, parentErr,
                   ctxErr, engine, serveErr, shutErr, closeErr, writes, ret>>
    /\ UNCHANGED <<calls, cfgVars>>
    /\ UNCHANGED <<late, elapsed, deadline>>

\* WithTimeoutCtx deriving the context from context.Background(), not from
\* the caller's ctx
WithTimeoutCtx_Background ==
    /\ pc = "timeout"
    /\ ctxErr' = IF srv.shutdown <= 0 THEN "DeadlineExceeded" ELSE "nil"
    /\ pc' = "shutdown"
    /\ UNCHANGED <<spc, wg, registered, delivered, dropped, sigGot, parentErr,
                   engine, serveErr, shutErr, closeErr, writes, ret>>
    /\ UNCHANGED <<calls, cfgVars>>
    /\ deadline' = elapsed + srv.shutdown
    /\ UNCHANGED <<late, elapsed>>

\* line 155: context.WithTimeout(ctx, s.shutdown): done at once when the
\* parent is done or the timeout is not positive
WithTimeoutCtx ==
    /\ pc = "timeout"
    /\ ctxErr' = IF parentErr # "nil" THEN parentErr
                 ELSE IF srv.shutdown <= 0 THEN "DeadlineExceeded"
                 ELSE "nil"
    /\ pc' = "shutdown"
    /\ UNCHANGED <<spc, wg, registered, delivered, dropped, sigGot, parentErr,
                   engine, serveErr, shutErr, closeErr, writes, ret>>
    /\ UNCHANGED <<calls, cfgVars>>
    /\ deadline' = elapsed + srv.shutdown
    /\ UNCHANGED <<late, elapsed>>

\* line 158: s.server.Shutdown(ctx) is entered: the server is marked as
\* shutting down and its listeners are closed
CallShutdown ==
    /\ pc = "shutdown"
    /\ engine' = [engine EXCEPT !.inShutdown = TRUE, !.listening = FALSE]
    /\ pc' = "draining"
    /\ UNCHANGED <<spc, wg, registered, delivered, dropped, sigGot, parentErr,
                   ctxErr, serveErr, shutErr, closeErr, writes, ret>>
    /\ calls' = [calls EXCEPT !.Shutdown = @ + 1]
    /\ UNCHANGED cfgVars
    /\ UNCHANGED <<late, elapsed, deadline>>

\* AfterShutdown taking the forced path on a deadline only
AfterShutdown_DeadlineOnly(err) ==
    IF err = "DeadlineExceeded" THEN "logTimeout" ELSE "wait"

\* AfterShutdown going to Close without the message of line 159
AfterShutdown_NoMessage(err) == IF err # "nil" THEN "close" ELSE "wait"

\* line 158, the branch on Shutdown's result
AfterShutdown(err) == IF err # "nil" THEN "logTimeout" ELSE "wait"

\* line 158: Shutdown returns with no connection left in flight: its result
\* is the result of closing the listeners
ShutdownDrained ==
    /\ pc = "draining"
    /\ engine.conns = 0
    /\ \E e \in {"nil", "ErrListenerClose"} :
         /\ shutErr' = e
         /\ pc' = AfterShutdown(e)
    /\ UNCHANGED <<spc, wg, registered, delivered, dropped, sigGot, parentErr,
                   ctxErr, engine, serveErr, closeErr, writes, ret>>
    /\ UNCHANGED <<calls, cfgVars>>
    /\ UNCHANGED <<late, elapsed, deadline>>

\* line 158: Shutdown returns ctx.Err(): the context is done while
\* connections are still in flight
ShutdownExpired ==
    /\ pc = "draining"
    /\ engine.conns > 0
    /\ ctxErr \notin {"none", "nil"}
    /\ shutErr' = ctxErr
    /\ pc' = AfterShutdown(ctxErr)
    /\ UNCHANGED <<spc, wg, registered, delivered, dropped, sigGot, parentErr,
                   ctxErr, engine, serveErr, closeErr, writes, ret>>
    /\ UNCHANGED <<calls, cfgVars>>
    /\ UNCHANGED <<late, elapsed, deadline>>

\* line 159
LogTimeout ==
    /\ pc = "logTimeout"
    /\ writes' = Append(writes, Fprintf(srv.err, "main", 159, TimedOutText(srv, shutErr)))
    /\ pc' = "close"
    /\ UNCHANGED <<spc, wg, registered, delivered, dropped, sigGot, parentErr,
                   ctxErr, engine, serveErr, shutErr, closeErr, ret>>
    /\ UNCHANGED <<calls, cfgVars>>
    /\ UNCHANGED <<late, elapsed, deadline>>

\* line 160, the branch on Close's result
AfterClose(err) == IF err # "nil" THEN "logKill" ELSE "wait"

\* line 160: s.server.Close(): listeners and connections are closed; its
\* result is the result of closing the listeners
CallClose ==
    /\ pc = "close"
    /\ engine' = [inShutdown |-> TRUE, listening |-> FALSE, conns |-> 0]
    /\ \E e \in {"nil", "ErrListenerClose"} :
         /\ closeErr' = e
         /\ pc' = AfterClose(e)
    /\ UNCHANGED <<spc, wg, registered, delivered, dropped, sigGot, parentErr,
                   ctxErr, serveErr, shutErr, writes, ret>>
    /\ calls' = [calls EXCEPT !.Close = @ + 1]
    /\ UNCHANGED cfgVars
    /\ UNCHANGED <<late, elapsed, deadline>>

\* line 161
LogKill ==
    /\ pc = "logKill"
    /\ writes' = Append(writes, Fprintf(srv.err, "main", 161, KillText(srv, closeErr)))
    /\ pc' = "retErr"
    /\ UNCHANGED <<spc, wg, registered, delivered, dropped, sigGot, parentErr,
                   ctxErr, engine, serveErr, shutErr, closeErr, ret>>
    /\ UNCHANGED <<calls, cfgVars>>
    /\ UNCHANGED <<late, elapsed, deadline>>

\* line 156: the deferred cancel() runs as ListenAndServe returns
Cancel(err) == IF err = "nil" THEN "Canceled" ELSE err

\* ReturnErr returning the outer err, that of Shutdown
ReturnErr_ShutdownErr ==
    /\ pc = "retErr"
    /\ ret' = shutErr
    /\ ctxErr' = Cancel(ctxErr)
    /\ pc' = "returned"
    /\ UNCHANGED <<spc, wg, registered, delivered, dropped, sigGot, parentErr,
                   engine, serveErr, shutErr, closeErr, writes>>
    /\ UNCHANGED <<calls, cfgVars>>
    /\ UNCHANGED <<late, elapsed, deadline>>

\* line 162: return err
ReturnErr ==
    /\ pc = "retErr"
    /\ ret' = closeErr
    /\ ctxErr' = Cancel(ctxErr)
    /\ pc' = "returned"
    /\ UNCHANGED <<spc, wg, registered, delivered, dropped, sigGot, parentErr,
                   engine, serveErr, shutErr, closeErr, writes>>
    /\ UNCHANGED <<calls, cfgVars>>
    /\ UNCHANGED <<late, elapsed, deadline>>

\* line 166: wg.Wait() returns once the counter is zero
Wait ==
    /\ pc = "wait"
    /\ wg = 0
    /\ pc' = "retNil"
    /\ UNCHANGED <<spc, wg, registered, delivered, dropped, sigGot, parentErr,
                   ctxErr, engine, serveErr, shutErr, closeErr, writes, ret>>
    /\ UNCHANGED <<calls, cfgVars>>
    /\ UNCHANGED <<late, elapsed, deadline>>

\* ReturnNil returning the serve loop's error when it is not
\* http.ErrServerClosed
ReturnNil_ServeErr ==
    /\ pc = "retNil"
    /\ ret' = IF serveErr \in {"none", "ErrServerClosed"} THEN "nil" ELSE serveErr
    /\ ctxErr' = Cancel(ctxErr)
    /\ pc' = "returned"
    /\ UNCHANGED <<spc, wg, registered, delivered, dropped, sigGot, parentErr,
                   engine, serveErr, shutErr, closeErr, writes>>
    /\ UNCHANGED <<calls, cfgVars>>
    /\ UNCHANGED <<late, elapsed, deadline>>

\* line 168: return nil
ReturnNil ==
    /\ pc = "retNil"
    /\ ret' = "nil"
    /\ ctxErr' = Cancel(ctxErr)
    /\ pc' = "returned"
    /\ UNCHANGED <<spc, wg, registered, delivered, dropped, sigGot, parentErr,
                   engine, serveErr, shutErr, closeErr, writes>>
    /\ UNCHANGED <<calls, cfgVars>>
    /\ UNCHANGED <<late, elapsed, deadline>>

\* ---- the serve goroutine, lines 144-148

\* line 146
PrintListening ==
    /\ spc = "print"
    /\ writes' = Append(writes, Fprintf(srv.out, "serve", 146, ListeningText(srv)))
    /\ spc' = "listen"
    /\ UNCHANGED <<pc, wg, registered, delivered, dropped, sigGot, parentErr,
                   ctxErr, engine, serveErr, shutErr, closeErr, ret>>
    /\ UNCHANGED <<calls, cfgVars>>
    /\ UNCHANGED <<late, elapsed, deadline>>

\* line 147: s.server.ListenAndServe() is called after Shutdown or Close:
\* it returns http.ErrServerClosed at once
ListenAfterShutdown ==
    /\ spc = "listen"
    /\ engine.inShutdown
    /\ serveErr' = "ErrServerClosed"
    /\ spc' = "report"
    /\ UNCHANGED <<pc, wg, registered, delivered, dropped, sigGot, parentErr,
                   ctxErr, engine, shutErr, closeErr, writes, ret>>
    /\ UNCHANGED <<calls, cfgVars>>
    /\ UNCHANGED <<late, elapsed, deadline>>

\* line 147: net.Listen fails (address in use, permission denied) and
\* s.server.ListenAndServe() returns that error
ListenFails ==
    /\ spc = "listen"
    /\ ~engine.inShutdown
    /\ serveErr' = "ErrBind"
    /\ spc' = "report"
    /\ UNCHANGED <<pc, wg, registered, delivered, dropped, sigGot, parentErr,
                   ctxErr, engine, shutErr, closeErr, writes, ret>>
    /\ UNCHANGED <<calls, cfgVars>>
    /\ UNCHANGED <<late, elapsed, deadline>>

\* line 147: net.Listen succeeds and the serve loop runs
ListenOk ==
    /\ spc = "listen"
    /\ ~engine.inShutdown
    /\ engine' = [engine EXCEPT !.listening = TRUE]
    /\ spc' = "serving"
    /\ UNCHANGED <<pc, wg, registered, delivered, dropped, sigGot, parentErr,
                   ctxErr, serveErr, shutErr, closeErr, writes, ret>>
    /\ UNCHANGED <<calls, cfgVars>>
    /\ UNCHANGED <<late, elapsed, deadline>>

\* line 147: the serve loop finds its listener closed by Shutdown or Close
\* and s.server.ListenAndServe() returns http.ErrServerClosed
ServeReturns ==
    /\ spc = "serving"
    /\ engine.inShutdown
    /\ serveErr' = "ErrServerClosed"
    /\ spc' = "report"
    /\ UNCHANGED <<pc, wg, registered, delivered, dropped, sigGot, parentErr,
                   ctxErr, engine, shutErr, closeErr, writes, ret>>
    /\ UNCHANGED <<calls, cfgVars>>
    /\ UNCHANGED <<late, elapsed, deadline>>

\* ReportServeError writing to s.out
ReportServeError_ToOut ==
    /\ spc = "report"
    /\ writes' = Append(writes, Fprintf(srv.out, "serve", 147, ServeErrorText(srv, serveErr)))
    /\ spc' = "exit"
    /\ UNCHANGED <<pc, wg, registered, delivered, dropped, sigGot, parentErr,
                   ctxErr, engine, serveErr, shutErr, closeErr, ret>>
    /\ UNCHANGED <<calls, cfgVars>>
    /\ UNCHANGED <<late, elapsed, deadline>>

\* line 147: fmt.Fprintf(s.err, err.Error())
ReportServeError ==
    /\ spc = "report"
    /\ writes' = Append(writes, Fprintf(srv.err, "serve", 147, ServeErrorText(srv, serveErr)))
    /\ spc' = "exit"
    /\ UNCHANGED <<pc, wg, registered, delivered, dropped, sigGot, parentErr,
                   ctxErr, engine, serveErr, shutErr, closeErr, ret>>
    /\ UNCHANGED <<calls, cfgVars>>
    /\ UNCHANGED <<late, elapsed, deadline>>

\* Done without the deferred wg.Done()
Done_NoWgDone ==
    /\ spc = "exit"
    /\ spc' = "done"
    /\ UNCHANGED <<pc, wg, registered, delivered, dropped, sigGot, parentErr,
                   ctxErr, engine, serveErr, shutErr, closeErr, writes, ret>>
    /\ UNCHANGED <<calls, cfgVars>>
    /\ UNCHANGED <<late, elapsed, deadline>>

\* line 145: the deferred wg.Done() runs and the goroutine ends
Done ==
    /\ spc = "exit"
    /\ wg' = wg - 1
    /\ spc' = "done"
    /\ UNCHANGED <<pc, registered, delivered, dropped, sigGot, parentErr,
                   ctxErr, engine, serveErr, shutErr, closeErr, writes, ret>>
    /\ UNCHANGED <<calls, cfgVars>>
    /\ UNCHANGED <<late, elapsed, deadline>>

\* ---- the environment

TermSignals == {"SIGINT", "SIGTERM"}

\* a termination signal arrives while the caller of ListenAndServe is parked
\* in <-osSignals: package signal's non-blocking send hands it over
SignalReceived ==
    /\ registered
    /\ delivered < MaxSignals
    /\ pc = "parked"
    /\ \E sig \in TermSignals : sigGot' = sig
    /\ delivered' = delivered + 1
    /\ pc' = "timeout"
    /\ UNCHANGED <<spc, wg, registered, dropped, parentErr, ctxErr, engine,
                   serveErr, shutErr, closeErr, writes, ret>>
    /\ UNCHANGED <<calls, cfgVars>>
    /\ UNCHANGED <<late, elapsed, deadline>>

\* SignalDropped with a second signal escalating to the forced close: a
\* signal that arrives during the drain ends the drain and goes to Close
SignalDropped_Escalates ==
    /\ registered
    /\ delivered < MaxSignals
    /\ pc # "parked"
    /\ delivered' = delivered + 1
    /\ dropped' = dropped + 1
    /\ pc' = IF pc = "draining" THEN "close" ELSE pc
    /\ UNCHANGED <<spc, wg, registered, sigGot, parentErr, ctxErr, engine,
                   serveErr, shutErr, closeErr, writes, ret>>
    /\ UNCHANGED <<calls, cfgVars>>
    /\ late' = IF sigGot # "none" /\ pc # "returned" THEN late + 1 ELSE late
    /\ UNCHANGED <<elapsed, deadline>>

\* a termination signal arrives while no goroutine is receiving from the
\* unbuffered osSignals: the non-blocking send drops it
SignalDropped ==
    /\ registered
    /\ delivered < MaxSignals
    /\ pc # "parked"
    /\ delivered' = delivered + 1
    /\ dropped' = dropped + 1
    /\ UNCHANGED <<pc, spc, wg, registered, sigGot, parentErr, ctxErr, engine,
                   serveErr, shutErr, closeErr, writes, ret>>
    /\ UNCHANGED <<calls, cfgVars>>
    /\ late' = IF sigGot # "none" /\ pc # "returned" THEN late + 1 ELSE late
    /\ UNCHANGED <<elapsed, deadline>>

\* the caller's context is cancelled or passes its own deadline; a live
\* context derived from it is done with the same error
ParentDone ==
    /\ parentErr = "nil"
    /\ pc # "returned"
    /\ \E e \in {"Canceled", "DeadlineExceeded"} :
         /\ parentErr' = e
         /\ ctxErr' = IF ctxErr = "nil" THEN e ELSE ctxErr
    /\ UNCHANGED <<pc, spc, wg, registered, delivered, dropped, sigGot, engine,
                   serveErr, shutErr, closeErr, writes, ret>>
    /\ UNCHANGED <<calls, cfgVars>>
    /\ UNCHANGED <<late, elapsed, deadline>>

\* the deadline of the context of line 155 is reached: its timer fires
DeadlineFires ==
    /\ ctxErr = "nil"
    /\ elapsed >= deadline
    /\ ctxErr' = "DeadlineExceeded"
    /\ UNCHANGED <<pc, spc, wg, registered, delivered, dropped, sigGot,
                   parentErr, engine, serveErr, shutErr, closeErr, writes, ret>>
    /\ UNCHANGED <<calls, cfgVars>>
    /\ UNCHANGED <<late, elapsed, deadline>>

\* time passes between the receipt of the signal and the return of
\* Shutdown, the span in which the context of line 155 is made and read:
\* before the context exists, for as long as the run call takes to be
\* scheduled; while it is live, up to its deadline, the one instant at
\* which something timed happens (its timer fires)
Tick ==
    /\ sigGot # "none"
    /\ pc \in {"timeout", "shutdown", "draining"}
    /\ \/ ctxErr = "none" /\ elapsed < MaxLatency /\ elapsed' = elapsed + 1
       \/ ctxErr = "nil" /\ elapsed < deadline /\ elapsed' = deadline
    /\ UNCHANGED <<pc, spc, wg, registered, delivered, dropped, sigGot,
                   parentErr, ctxErr, engine, serveErr, shutErr, closeErr,
                   writes, ret>>
    /\ UNCHANGED <<calls, cfgVars>>
    /\ UNCHANGED <<late, deadline>>

\* a client connects and sends a request
ConnOpen ==
    /\ engine.listening
    /\ engine.conns < MaxConns
    /\ engine' = [engine EXCEPT !.conns = @ + 1]
    /\ UNCHANGED <<pc, spc, wg, registered, delivered, dropped, sigGot,
                   parentErr, ctxErr, serveErr, shutErr, closeErr, writes, ret>>
    /\ UNCHANGED <<calls, cfgVars>>
    /\ UNCHANGED <<late, elapsed, deadline>>

\* a request in flight finishes and its connection goes idle
ConnDone ==
    /\ engine.conns > 0
    /\ engine' = [engine EXCEPT !.conns = @ - 1]
    /\ UNCHANGED <<pc, spc, wg, registered, delivered, dropped, sigGot,
                   parentErr, ctxErr, serveErr, shutErr, closeErr, writes, ret>>
    /\ UNCHANGED <<calls, cfgVars>>
    /\ UNCHANGED <<late, elapsed, deadline>>

MainStep ==
    \/ Start \/ Notify \/ Park \/ WithTimeoutCtx \/ CallShutdown
    \/ ShutdownDrained \/ ShutdownExpired \/ LogTimeout \/ CallClose
    \/ LogKill \/ ReturnErr \/ Wait \/ ReturnNil

ServeStep ==
    \/ PrintListening \/ ListenAfterShutdown \/ ListenFails \/ ListenOk
    \/ ServeReturns \/ ReportServeError \/ Done

EnvStep ==
    \/ SignalReceived \/ SignalDropped \/ ParentDone \/ DeadlineFires
    \/ Tick \/ ConnOpen \/ ConnDone

Next == MainStep \/ ServeStep \/ EnvStep

Spec == Init /\ [][Next]_vars

\* a runnable goroutine is scheduled, time passes, and the runtime's timer
\* fires
FairSpec ==
    /\ Spec
    /\ WF_vars(MainStep)
    /\ WF_vars(ServeStep)
    /\ WF_vars(Tick)
    /\ WF_vars(DeadlineFires)

----------------------------------------------------------------------------
(* Properties. *)

\* s.server.Shutdown has been entered
ShutdownInvoked == calls.Shutdown > 0

\* the Fprintf calls made so far at source line `site`
WritesAt(site) == {i \in 1..Len(writes) : writes[i].site = site}

\* an error value that is a non-nil error
IsError(e) == e \notin {"none", "nil"}

(* C1: whenever ListenAndServe has returned, on every return path, the     *)
(* serve goroutine it started has already terminated.                      *)
C1_ServeGoroutineDoneOnReturn ==
    pc = "returned" => spc = "done"

(* C2: ListenAndServe returns a non-nil error if and only if Shutdown      *)
(* returned an error and the following Close returned an error too, and    *)
(* then the value returned is the one Close returned; otherwise it returns *)
(* nil.                                                                    *)
C2_ReturnsExactlyCloseError ==
    pc = "returned" =>
        /\ (ret # "nil") <=> (IsError(shutErr) /\ IsError(closeErr))
        /\ ret # "nil" => ret = closeErr

\* ListenAndServe returned Close's error, which is neither Shutdown's error
\* nor the serve loop's
C2_Witness ==
    /\ pc = "returned"
    /\ ret = "ErrListenerClose"
    /\ closeErr = "ErrListenerClose"
    /\ shutErr = "DeadlineExceeded"
    /\ serveErr = "ErrServerClosed"

(* C3: a termination signal delivered to the process at any point after    *)
(* signal.Notify has registered the channel leads to Shutdown being        *)
(* invoked: the signal is not lost, whatever the interleaving of the       *)
(* delivery and the run call reaching its receive.                         *)
C3_SignalLeadsToShutdown ==
    (delivered > 0) ~> ShutdownInvoked

(* C4: neither Shutdown nor Close is invoked in a state where no           *)
(* termination signal has been received from the channel, whether or not   *)
(* the serve loop has ended or the caller's context is done.               *)
C4_NoShutdownBeforeSignal ==
    sigGot = "none" =>
        /\ calls.Shutdown = 0
        /\ calls.Close = 0
        /\ ~engine.inShutdown
        /\ pc \in {"start", "notify", "recv", "parked"}

\* the serve loop has ended on a bind failure and the caller's context is
\* cancelled, and only then a signal is received and Shutdown invoked
C4_Witness ==
    /\ sigGot # "none"
    /\ calls.Shutdown = 1
    /\ serveErr = "ErrBind"
    /\ spc = "done"
    /\ parentErr = "Canceled"

(* C5: within one run, Close is called, once, exactly when Shutdown        *)
(* returned a non-nil error (the deadline, a cancellation or any other     *)
(* error of the drain), and never when Shutdown returned nil.              *)
C5_CloseIffShutdownFailed ==
    /\ calls.Close <= 1
    /\ calls.Close = 1 => IsError(shutErr)
    /\ shutErr = "nil" => calls.Close = 0
    /\ (IsError(shutErr) /\ pc \in {"logKill", "retErr", "wait", "retNil", "returned"})
         => calls.Close = 1

\* the drain outlasted the grace deadline and Close was called
C5_Witness ==
    /\ shutErr = "DeadlineExceeded"
    /\ parentErr = "nil"
    /\ calls.Close = 1
    /\ pc = "returned"

\* what ListenAndServe returns as a function of the results of Shutdown and
\* Close alone
ShutdownHealth == IF IsError(shutErr) /\ IsError(closeErr) THEN closeErr ELSE "nil"

(* C6: a bind failure of the serve loop is written to the error sink by    *)
(* the serve goroutine and never surfaces in the value ListenAndServe      *)
(* returns, which is decided by the results of Shutdown and Close alone.   *)
C6_BindFailureNotReturned ==
    serveErr = "ErrBind" =>
        /\ spc \in {"exit", "done"} =>
             \E i \in WritesAt(147) :
                 writes[i] = Fprintf(srv.err, "serve", 147, ServeErrorText(srv, "ErrBind"))
        /\ pc = "returned" => (ret = ShutdownHealth /\ ret # serveErr)

\* the bind failed, the serve goroutine wrote the error, and ListenAndServe
\* returned nil after a clean shutdown
C6_Witness ==
    /\ serveErr = "ErrBind"
    /\ spc = "done"
    /\ pc = "returned"
    /\ ret = "nil"
    /\ WritesAt(147) # {}

(* C7: by the time ListenAndServe returns, the serve loop's terminal error *)
(* has been written to the error sink exactly once, the "shutdown timed    *)
(* out" message exactly once if Shutdown failed and never otherwise, and   *)
(* the "error killing server" message exactly once if Close failed and     *)
(* never otherwise.                                                        *)
C7_EveryErrorReportedOnce ==
    pc = "returned" =>
        /\ Cardinality(WritesAt(147)) = 1
        /\ Cardinality(WritesAt(159)) = (IF IsError(shutErr) THEN 1 ELSE 0)
        /\ Cardinality(WritesAt(161)) = (IF IsError(closeErr) THEN 1 ELSE 0)

\* server.New has returned
ServerBuilt == call.fn = "server.New" /\ srv # NoServer

\* client.New has returned
ClientBuilt == call.fn = "client.New" /\ cli # NoClient

(* C8: for every address and handler, server.New with no options yields a  *)
(* Server with read timeout 5s, write timeout 10s, max header bytes 1 MiB, *)
(* shutdown grace period 5s, output sink os.Stdout and error sink          *)
(* os.Stderr.                                                              *)
C8_ServerDefaults ==
    (ServerBuilt /\ call.opts = <<>>) =>
        /\ srv.server.ReadTimeout = 5
        /\ srv.server.WriteTimeout = 10
        /\ srv.server.MaxHeaderBytes = 2^20
        /\ srv.shutdown = 5
        /\ srv.out = "os.Stdout"
        /\ srv.err = "os.Stderr"

\* server.New(addr, h) with no options has returned
C8_Witness ==
    /\ ServerBuilt
    /\ call.opts = <<>>
    /\ call.addr = ":8080"
    /\ call.h = "nil"

\* the argument of the last option named `name` in opts, or `default` when
\* there is none
LastArg(opts, name, default) ==
    LET at == {i \in 1..Len(opts) : opts[i].name = name}
    IN  IF at = {} THEN default
        ELSE opts[CHOOSE i \in at : \A j \in at : j <= i].arg

(* C9: options are applied in the order given and the last write wins per  *)
(* field: after server.New, and after client.New, each configurable field  *)
(* holds the value of the last option in the list that targets it, or the  *)
(* default if none does.                                                   *)
C9_LastOptionWins ==
    /\ ServerBuilt =>
         /\ srv.server.ReadTimeout = LastArg(call.opts, "WithReadTimeout", 5)
         /\ srv.server.WriteTimeout = LastArg(call.opts, "WithWriteTimeout", 10)
         /\ srv.shutdown = LastArg(call.opts, "WithShutdown", 5)
         /\ srv.server.MaxHeaderBytes = LastArg(call.opts, "WithMaxHeaderBytes", 2^20)
         /\ srv.out = LastArg(call.opts, "WithOutputWriter", "os.Stdout")
         /\ srv.err = LastArg(call.opts, "WithErrorWriter", "os.Stderr")
    /\ ClientBuilt =>
         /\ cli.Timeout = LastArg(call.opts, "WithTimeout", 5)
         /\ cli.Transport = LastArg(call.opts, "WithTransport", "nil")
         /\ cli.CheckRedirect = LastArg(call.opts, "WithCheckRedirect", "nil")
         /\ cli.Jar = LastArg(call.opts, "WithJar", "nil")

\* two options for the same field with different values, an option for
\* another field between them, and the later value is the field's
C9_Witness ==
    /\ ServerBuilt
    /\ Len(call.opts) = 3
    /\ call.opts[1] = [name |-> "WithReadTimeout", arg |-> 10]
    /\ call.opts[2].name = "WithWriteTimeout"
    /\ call.opts[3] = [name |-> "WithReadTimeout", arg |-> 0]
    /\ srv.server.ReadTimeout = 0

\* the positions of the WithTimeout options in a client option list
TimeoutOptions(opts) == {i \in 1..Len(opts) : opts[i].name = "WithTimeout"}

(* C10: client.New with no options returns a client whose timeout is 5s,   *)
(* and with WithTimeout(T) as its only timeout option one whose timeout is *)
(* T, for every T, zero included: no value is rejected or replaced.        *)
C10_ClientTimeout ==
    ClientBuilt =>
        /\ call.opts = <<>> => cli.Timeout = 5
        /\ \A i \in TimeoutOptions(call.opts) :
             TimeoutOptions(call.opts) = {i} => cli.Timeout = call.opts[i].arg

\* client.New(WithTimeout(0)), among other options, returned a client with
\* no timeout
C10_Witness ==
    /\ ClientBuilt
    /\ Cardinality(TimeoutOptions(call.opts)) = 1
    /\ \E i \in TimeoutOptions(call.opts) : call.opts[i].arg = 0
    /\ cli.Timeout = 0

\* the fields of a Server, by name (the fields of the embedded http.Server
\* under their own names)
ServerFields(s) ==
    [addr           |-> s.addr,
     Addr           |-> s.server.Addr,
     Handler        |-> s.server.Handler,
     ReadTimeout    |-> s.server.ReadTimeout,
     WriteTimeout   |-> s.server.WriteTimeout,
     MaxHeaderBytes |-> s.server.MaxHeaderBytes,
     shutdown       |-> s.shutdown,
     out            |-> s.out,
     err            |-> s.err]

\* the field each option is documented to set
OwnField(name) ==
    CASE name = "WithReadTimeout"    -> "ReadTimeout"
      [] name = "WithWriteTimeout"   -> "WriteTimeout"
      [] name = "WithShutdown"       -> "shutdown"
      [] name = "WithMaxHeaderBytes" -> "MaxHeaderBytes"
      [] name = "WithOutputWriter"   -> "out"
      [] name = "WithErrorWriter"    -> "err"

(* C11: for every sequence of the six server options the Server that New  *)
(* returns has the address and the handler given to New, and each option   *)
(* applied to a Server sets its own field and leaves every other field of  *)
(* the Server as it was.                                                   *)
C11_OptionsFrame ==
    ServerBuilt =>
        /\ srv.addr = call.addr
        /\ srv.server.Addr = call.addr
        /\ srv.server.Handler = call.h
        /\ \A o \in ServerOptions :
             LET before == ServerFields(srv)
                 after  == ServerFields(ApplyOption(o, srv))
             IN  /\ after[OwnField(o.name)] = o.arg
                 /\ \A f \in DOMAIN before :
                      f # OwnField(o.name) => after[f] = before[f]

\* New was given three options for three different fields and returned a
\* Server with the address and handler it was given
C11_Witness ==
    /\ ServerBuilt
    /\ Len(call.opts) = 3
    /\ call.opts[1].name = "WithErrorWriter"
    /\ call.opts[2].name = "WithShutdown"
    /\ call.opts[3].name = "WithMaxHeaderBytes"
    /\ srv.addr = "[fe80::1%eth0]:80"
    /\ srv.server.Handler = "mux"

(* C12: ListenAndServe does not return before a termination signal has     *)
(* been received: until then the run call is in or before the signal wait, *)
(* also when the serve loop has already ended on a bind failure; and when  *)
(* it has returned, Shutdown has returned and, if it failed, Close too.    *)
C12_NoReturnBeforeSignal ==
    /\ sigGot = "none" => (ret = "none" /\ pc \notin {"retErr", "retNil", "returned"})
    /\ pc = "returned" =>
         /\ sigGot \in TermSignals
         /\ shutErr # "none"
         /\ IsError(shutErr) => closeErr # "none"

\* the serve goroutine has ended on a bind failure and the run call is
\* still blocked in the signal wait
C12_Witness ==
    /\ pc = "parked"
    /\ sigGot = "none"
    /\ serveErr = "ErrBind"
    /\ spc = "done"
    /\ wg = 0
    /\ ret = "none"

\* position in `writes` of the first Fprintf made at `site` (0 when none)
FirstAt(site) ==
    IF WritesAt(site) = {} THEN 0
    ELSE CHOOSE i \in WritesAt(site) : \A j \in WritesAt(site) : i <= j

(* C13: on the forced path the "shutdown timed out after <period>:         *)
(* <error>" message is written to the error sink before Close is invoked,  *)
(* and when Close fails the "error killing server: <error>" message is     *)
(* written to the error sink before ListenAndServe returns that error.     *)
C13_ForcedPathOrder ==
    /\ calls.Close > 0 =>
         /\ WritesAt(159) # {}
         /\ writes[FirstAt(159)] =
              Fprintf(srv.err, "main", 159,
                      "shutdown timed out after " \o DurationString(srv.shutdown)
                      \o ": " \o ErrorText(shutErr, srv.addr))
    /\ (pc = "returned" /\ ret # "nil") =>
         /\ WritesAt(161) # {}
         /\ FirstAt(159) < FirstAt(161)
         /\ writes[FirstAt(161)] =
              Fprintf(srv.err, "main", 161,
                      "error killing server: " \o ErrorText(ret, srv.addr))

\* the drain timed out, Close failed, both messages are on the error sink
\* and ListenAndServe has returned Close's error
C13_Witness ==
    /\ pc = "returned"
    /\ ret = "ErrListenerClose"
    /\ shutErr = "DeadlineExceeded"
    /\ WritesAt(159) # {}
    /\ WritesAt(161) # {}

(* C14: a further termination signal delivered once one has been received *)
(* has no effect on the run: Shutdown is invoked at most once, Close only  *)
(* after Shutdown returned an error, and the step that delivers the        *)
(* further signal changes nothing of the run but the count of signals.     *)
C14_SecondSignalIgnored ==
    /\ [](calls.Shutdown <= 1 /\ (calls.Close > 0 => IsError(shutErr)))
    /\ [][(sigGot # "none" /\ delivered' # delivered) =>
            UNCHANGED <<pc, spc, wg, sigGot, ctxErr, engine, serveErr, shutErr,
                        closeErr, calls, writes, ret>>]_vars

\* a second signal arrived during the shutdown, which ended gracefully with
\* one Shutdown call and no Close call
C14_Witness ==
    /\ late > 0
    /\ pc = "returned"
    /\ ret = "nil"
    /\ calls = [Shutdown |-> 1, Close |-> 0]

\* a context's Err() says it is done
IsDone(e) == e \notin {"none", "nil"}

(* C15, as stated: the context of line 155 is done no later than one grace *)
(* period after the receipt of the signal.                                 *)
C15_DoneWithinGraceOfReceipt ==
    (sigGot # "none" /\ elapsed > srv.shutdown) => IsDone(ctxErr)

(* C15, as amended: the context passed to Shutdown is made only after the  *)
(* signal is received, from the caller's context and the grace period: its *)
(* deadline is one grace period after its creation at line 155 (which is   *)
(* at or after the receipt), it is not live past that deadline nor once    *)
(* the caller's context is done, so with a caller's context that is        *)
(* already cancelled it is done when Shutdown is called.                   *)
C15_DrainContext ==
    /\ ctxErr # "none" =>
         /\ sigGot # "none"
         /\ deadline - srv.shutdown \in 0..elapsed
    /\ ctxErr = "none" => deadline = -1
    /\ ctxErr = "nil" => (elapsed <= deadline /\ parentErr = "nil")
    /\ (calls.Shutdown > 0 /\ parentErr # "nil" /\ pc # "returned") =>
         ctxErr \in {parentErr, "DeadlineExceeded"}
    /\ (pc = "shutdown" /\ parentErr # "nil") => IsDone(ctxErr)

\* the caller's context was cancelled before the call, a signal was
\* received, and Shutdown has been called with a context that is done
C15_Witness ==
    /\ pc = "draining"
    /\ parentErr = "Canceled"
    /\ ctxErr = "Canceled"
    /\ elapsed = 0
    /\ deadline = srv.shutdown
    /\ srv.shutdown > 0

\* the run call is in the signal wait of line 153
Waiting == pc \in {"recv", "parked"}

(* C16, as stated: if the caller's context is cancelled while the run call *)
(* waits for a signal, the wait ends.                                      *)
C16_CancelEndsWait ==
    (Waiting /\ parentErr # "nil") ~> ~Waiting

(* C16, as amended: the wait for a termination signal is a single blocking *)
(* receive from the signal channel that is not tied to the caller's        *)
(* context: only the receipt of a signal ends it, and the caller's         *)
(* context becoming done while the run call waits leaves it waiting.       *)
C16_OnlySignalEndsWait ==
    [][Waiting =>
         /\ Waiting' \/ (sigGot' \in TermSignals /\ delivered' = delivered + 1)
         /\ parentErr' # parentErr => Waiting']_vars

\* the run call is parked in the receive with the caller's context done
C16_Witness ==
    /\ pc = "parked"
    /\ parentErr \in {"Canceled", "DeadlineExceeded"}
    /\ sigGot = "none"

\* the Fprintf calls so far whose writer is w
WritesTo(w) == {i \in 1..Len(writes) : writes[i].w = w}

(* C17, as stated: the "listening on <addr>..." line is the only thing     *)
(* ever written to the output sink.                                        *)
C17_OnlyListeningOnOutputSink ==
    \A i \in WritesTo(srv.out) : writes[i].site = 146

(* C17, as amended: the "listening on <addr>..." line is written to the    *)
(* output sink exactly once per call, by the serve goroutine, before the   *)
(* engine's serve loop is started (so also when the bind then fails), and  *)
(* it is the only write made to s.out: every other write goes to s.err, so *)
(* nothing else reaches the output sink unless the caller gave the same    *)
(* writer for both sinks.                                                  *)
C17_ListeningLine ==
    /\ Cardinality(WritesAt(146)) = (IF spc \in {"idle", "print"} THEN 0 ELSE 1)
    /\ \A i \in WritesAt(146) :
         /\ writes[i] = Fprintf(srv.out, "serve", 146,
                                "listening on " \o srv.addr \o "...\n")
         /\ \A j \in 1..Len(writes) : writes[j].site = 147 => i < j
    /\ serveErr # "none" => WritesAt(146) # {}
    /\ \A i \in 1..Len(writes) : writes[i].site # 146 => writes[i].w = srv.err
    /\ srv.out # srv.err => \A i \in WritesTo(srv.out) : writes[i].site = 146

\* the bind failed after the line was written to an output sink that is not
\* the error sink, and the run has ended
C17_Witness ==
    /\ serveErr = "ErrBind"
    /\ srv.out # srv.err
    /\ pc = "returned"
    /\ spc = "done"
    /\ Cardinality(WritesTo(srv.out)) = 1
    /\ Cardinality(WritesTo(srv.err)) >= 2

(* C18: once the run call has received a signal, ListenAndServe returns,   *)
(* given fair scheduling of the two goroutines, a Shutdown that returns by *)
(* its context's deadline, a Close that returns and a serve loop that      *)
(* returns once Shutdown or Close has been called; also when the signal is *)
(* received before the serve goroutine has started the serve loop.         *)
C18_ReturnsAfterSignal ==
    (sigGot # "none") ~> (pc = "returned")

\* the run call is at the join after a graceful Shutdown while the serve
\* goroutine has not yet called s.server.ListenAndServe()
C18_Witness ==
    /\ pc = "wait"
    /\ spc \in {"print", "listen"}
    /\ engine.inShutdown
    /\ wg = 1

====
